---- MODULE Spec2Model ----
(***************************************************************************)
(* Model of the two polling programs of the repository:                    *)
(*   src/3dh.py   MLX90393 3-axis magnetometer (start / read poll loop)    *)
(*   src/baro.py  BMP280 barometer (setup, calibration, poll loop)         *)
(* Each program is a sequential script; its state is its position (pc),    *)
(* its variables and the trace of bus transactions and printed lines.      *)
(* The two scripts are separate processes: each has its own specification. *)
(***************************************************************************)
EXTENDS Integers, Sequences, FiniteSets, TLC

VARIABLES
    mpc,          \* 3dh.py: position of the main program
    mtrace,       \* 3dh.py: bus transactions and printed lines, in order
    frame,        \* 3dh.py: read_data's local `data` (<<>> when not assigned)
    values,       \* 3dh.py: main loop's `values` (<<>> models None)
    out,          \* 3dh.py: the (x, y, z) of the last printed line
    bpc,          \* baro.py: position of the main program
    btrace,       \* baro.py: bus transactions and printed lines, in order
    calib,        \* baro.py: read_calibration_data's local `calib` (the 24 bytes)
    calib_coeffs, \* baro.py: main program's `calib_coeffs` (<<>> when unset)
    data,         \* baro.py: read_data's local `data` of the last cycle
    reading       \* baro.py: what the last read cycle computed and printed

magVars == <<mpc, mtrace, frame, values, out>>
baroVars == <<bpc, btrace, calib, calib_coeffs, data, reading>>
vars == <<mpc, mtrace, frame, values, out, bpc, btrace, calib, calib_coeffs, data, reading>>

(***************************************************************************)
(* Bounds of the model.                                                    *)
(***************************************************************************)
\* Poll cycles a run of either program is followed for.
MaxCycles == 3
\* Width of the bands of byte values sampled around 0, 16, 128 and 255.
ByteSpread == 1

(***************************************************************************)
(* Python's integer operators on non-negative integers.                    *)
(***************************************************************************)
RECURSIVE Pow2(_)
Pow2(n) == IF n = 0 THEN 1 ELSE 2 * Pow2(n - 1)

\* a << n
Shl(a, n) == a * Pow2(n)

\* a >> n
Shr(a, n) == a \div Pow2(n)

\* a | b, bit by bit
RECURSIVE BitOr(_, _)
BitOr(a, b) ==
    IF a = 0 THEN b
    ELSE IF b = 0 THEN a
    ELSE (IF a % 2 = 1 \/ b % 2 = 1 THEN 1 ELSE 0)
         + 2 * BitOr(a \div 2, b \div 2)

\* data[i] of a Python list (0-based)
At(list, i) == list[i + 1]

Byte == 0 .. 255

\* Byte values at the two ends of the byte range.
EdgeBytes == (0 .. ByteSpread) \cup ((255 - ByteSpread) .. 255)

\* Byte values at the ends of the range and around 16, where x >> 4 changes.
XlsbBytes == EdgeBytes \cup ((16 - ByteSpread) .. (15 + ByteSpread))

\* One event of 3dh.py's trace.
Event(op, addr, cmd, len, ok) ==
    [op |-> op, addr |-> addr, cmd |-> cmd, len |-> len, ok |-> ok]

RECURSIVE CountOp(_, _)
CountOp(trace, op) ==
    IF trace = <<>> THEN 0
    ELSE (IF Head(trace).op = op THEN 1 ELSE 0) + CountOp(Tail(trace), op)

(***************************************************************************)
(* src/3dh.py                                                              *)
(***************************************************************************)
MAG_ADDR == 12
CMD_SM == 48
CMD_RM == 64
AXIS_MASK == 14
MAG_FRAME_LEN == 7

\* start_measurement: cmd = CMD_SM | AXIS_MASK
StartCmd == BitOr(CMD_SM, AXIS_MASK)

\* A variant of the read command that selects all four channels.
ReadCmdWrongMask == BitOr(CMD_RM, 15)

\* read_data: cmd = CMD_RM | AXIS_MASK
ReadCmd == BitOr(CMD_RM, AXIS_MASK)

\* A variant of the axis value without the conversion to signed.
AxisNoSign(hi, lo) == BitOr(Shl(hi, 8), lo)

\* read_data, lines 57-64: (hi << 8) | lo, then the conversion to signed
Axis(hi, lo) ==
    LET v == BitOr(Shl(hi, 8), lo)
    IN  IF v > 32767 THEN v - 65536 ELSE v

\* read_data, lines 57-66: the returned (x, y, z)
DecodeAxes(d) ==
    <<Axis(At(d, 1), At(d, 2)), Axis(At(d, 3), At(d, 4)), Axis(At(d, 5), At(d, 6))>>

\* A 7-byte frame in which every axis holds a different byte pair.
MagFrame(status, hi, lo) == <<status, hi, lo, lo, hi, 255 - hi, 255 - lo>>

\* The magnitude printed with x, y, z is a floating-point value and is not
\* represented.

\* The frames the bus returns in the polling specification.
MagFrames == {MagFrame(s, hi, lo) : s \in {0, 255}, hi \in {0, 128}, lo \in {1, 255}}

\* The frames the bus returns in the decoding specification: every byte pair
\* on every axis.
MagAllFrames == {MagFrame(s, hi, lo) : s \in {0, 255}, hi \in Byte, lo \in Byte}

MagInit ==
    /\ mpc = "start"
    /\ mtrace = <<>>
    /\ frame = <<>>
    /\ values = <<>>
    /\ out = <<>>
    /\ bpc = "off"
    /\ btrace = <<>>
    /\ calib = <<>>
    /\ calib_coeffs = <<>>
    /\ data = <<>>
    /\ reading = <<>>

\* start_measurement, the write succeeds; then time.sleep(0.05)
MagStartOk(cap) ==
    /\ mpc = "start"
    /\ CountOp(mtrace, "write_byte") < cap
    /\ mtrace' = Append(mtrace, Event("write_byte", MAG_ADDR, StartCmd, 0, TRUE))
    /\ mpc' = "read"
    /\ UNCHANGED <<frame, values, out>>
    /\ UNCHANGED baroVars

\* A variant of the failed start in which the program goes on to read.
MagStartFailContinues(cap) ==
    /\ mpc = "start"
    /\ CountOp(mtrace, "write_byte") < cap
    /\ mtrace' = Append(mtrace, Event("write_byte", MAG_ADDR, StartCmd, 0, FALSE))
    /\ mpc' = "read"
    /\ UNCHANGED <<frame, values, out>>
    /\ UNCHANGED baroVars

\* start_measurement, the write raises OSError: print and exit(); SystemExit
\* passes the `except KeyboardInterrupt` of line 92 and the program ends
MagStartFail(cap) ==
    /\ mpc = "start"
    /\ CountOp(mtrace, "write_byte") < cap
    /\ mtrace' = Append(mtrace, Event("write_byte", MAG_ADDR, StartCmd, 0, FALSE))
    /\ mpc' = "exited"
    /\ UNCHANGED <<frame, values, out>>
    /\ UNCHANGED baroVars

\* read_data, the block read succeeds: values = (x, y, z)
MagReadOk(frames) ==
    /\ mpc = "read"
    /\ \E d \in frames :
        /\ frame' = d
        /\ values' = DecodeAxes(d)
    /\ mtrace' = Append(mtrace, Event("read_block", MAG_ADDR, ReadCmd, MAG_FRAME_LEN, TRUE))
    /\ mpc' = "check"
    /\ UNCHANGED out
    /\ UNCHANGED baroVars

\* A variant of the failed read that leaves the previous cycle's values.
MagReadFailKeepsValues ==
    /\ mpc = "read"
    /\ mtrace' = Append(mtrace, Event("read_block", MAG_ADDR, ReadCmd, MAG_FRAME_LEN, FALSE))
    /\ mpc' = "check"
    /\ UNCHANGED <<frame, values, out>>
    /\ UNCHANGED baroVars

\* read_data, the block read raises OSError: return None
MagReadFail ==
    /\ mpc = "read"
    /\ frame' = <<>>
    /\ values' = <<>>
    /\ mtrace' = Append(mtrace, Event("read_block", MAG_ADDR, ReadCmd, MAG_FRAME_LEN, FALSE))
    /\ mpc' = "check"
    /\ UNCHANGED out
    /\ UNCHANGED baroVars

\* main loop, `if values:` taken: print the line, then time.sleep(0.2)
MagReport ==
    /\ mpc = "check"
    /\ values # <<>>
    /\ out' = values
    /\ mtrace' = Append(mtrace, Event("print", 0, 0, 0, TRUE))
    /\ mpc' = "start"
    /\ UNCHANGED <<frame, values>>
    /\ UNCHANGED baroVars

\* main loop, `if values:` not taken: time.sleep(0.2)
MagSkip ==
    /\ mpc = "check"
    /\ values = <<>>
    /\ mpc' = "start"
    /\ UNCHANGED <<mtrace, frame, values, out>>
    /\ UNCHANGED baroVars

\* KeyboardInterrupt anywhere in the loop: print "Stopped." and end
MagInterrupt ==
    /\ mpc \in {"start", "read", "check"}
    /\ mpc' = "stopped"
    /\ UNCHANGED <<mtrace, frame, values, out>>
    /\ UNCHANGED baroVars

MagNext ==
    \/ MagStartOk(MaxCycles)
    \/ MagStartFail(MaxCycles)
    \/ MagReadOk(MagFrames)
    \/ MagReadFail
    \/ MagReport
    \/ MagSkip
    \/ MagInterrupt

\* 3dh.py run for MaxCycles poll cycles
MagSpec == MagInit /\ [][MagNext]_vars

MagDecodeNext ==
    \/ MagStartOk(1)
    \/ MagStartFail(1)
    \/ MagReadOk(MagAllFrames)
    \/ MagReadFail
    \/ MagReport
    \/ MagSkip
    \/ MagInterrupt

\* 3dh.py run for one poll cycle, the bus returning every byte pair
MagDecodeSpec == MagInit /\ [][MagDecodeNext]_vars

(***************************************************************************)
(* src/baro.py                                                             *)
(***************************************************************************)
BARO_ADDR == 118
REG_DATA == 247
REG_CONTROL == 244
REG_CONFIG == 245
REG_CALIB == 136
CONTROL_VALUE == 39
CONFIG_VALUE == 160
CALIB_LEN == 24
DATA_LEN == 6

\* One event of baro.py's trace.
BEvent(op, reg, val, len, ok) ==
    [op |-> op, addr |-> BARO_ADDR, reg |-> reg, val |-> val, len |-> len, ok |-> ok]

\* A variant of get_ushort that converts to signed.
GetUshortSigned(list, index) ==
    LET v == Shl(At(list, index + 1), 8) + At(list, index)
    IN  IF v > 32767 THEN v - 65536 ELSE v

\* get_ushort(data, index)
get_ushort(list, index) == Shl(At(list, index + 1), 8) + At(list, index)

\* get_short(data, index): not called by the program
get_short(list, index) == Shl(At(list, index + 1), 8) + At(list, index)

\* read_calibration_data, the signed fields: (calib[i+1] << 8) | calib[i],
\* then `if v > 32767: v -= 65536`
SignedField(list, index) ==
    LET v == BitOr(Shl(At(list, index + 1), 8), At(list, index))
    IN  IF v > 32767 THEN v - 65536 ELSE v

\* read_calibration_data: the dictionary built from the 24 bytes
ParseCalibration(c) ==
    [T1 |-> get_ushort(c, 0),
     T2 |-> SignedField(c, 2),
     T3 |-> SignedField(c, 4),
     P1 |-> get_ushort(c, 6),
     P2 |-> SignedField(c, 8),
     P3 |-> SignedField(c, 10),
     P4 |-> SignedField(c, 12),
     P5 |-> SignedField(c, 14),
     P6 |-> SignedField(c, 16),
     P7 |-> SignedField(c, 18),
     P8 |-> SignedField(c, 20),
     P9 |-> SignedField(c, 22)]

\* A variant of the raw code in which xlsb is not shifted.
U20NoXlsbShift(msb, lsb, xlsb) == BitOr(BitOr(Shl(msb, 12), Shl(lsb, 4)), xlsb)

\* read_data, lines 76-77: (msb << 12) | (lsb << 4) | (xlsb >> 4)
U20(msb, lsb, xlsb) == BitOr(BitOr(Shl(msb, 12), Shl(lsb, 4)), Shr(xlsb, 4))

\* The floating-point values of read_data are not computed. A value is
\* represented by its sign (-1, 0, 1), and the two values the branches depend
\* on are inputs of the computation, drawn over every sign:
\*   f  the factor (1.0 + var1 / 32768.0) of line 91
\*   q  the pressure of line 100
Signs == {-1, 0, 1}

Sign(x) == IF x < 0 THEN -1 ELSE IF x = 0 THEN 0 ELSE 1

\* A variant of the pressure computation without the `if var1 == 0` guard.
CompensateNoGuard(dig, f, q) ==
    LET var1 == Sign(f * dig.P1)
    IN  [var1 |-> var1, divided |-> TRUE, raised |-> (var1 = 0),
         pressure |-> IF var1 = 0 THEN 0 ELSE q]

\* read_data, lines 91-103: var1 = (...) * dig['P1'], the guard, the division
\* (a division by zero raises ZeroDivisionError) and the returned pressure
Compensate(dig, f, q) ==
    LET var1 == Sign(f * dig.P1)
    IN  IF var1 = 0
        THEN [var1 |-> var1, divided |-> FALSE, raised |-> FALSE, pressure |-> 0]
        ELSE [var1 |-> var1, divided |-> TRUE, raised |-> FALSE, pressure |-> q]

\* read_data(dig) on the 6 bytes d: the raw codes and the pressure branch
ReadData(dig, d, f, q) ==
    [adc_p |-> U20(At(d, 0), At(d, 1), At(d, 2)),
     adc_t |-> U20(At(d, 3), At(d, 4), At(d, 5)),
     dig |-> dig,
     comp |-> Compensate(dig, f, q)]

\* The two bytes of a 16-bit value, low byte first.
LE16(v) == <<(v % 65536) % 256, (v % 65536) \div 256>>

\* The 24 bytes of the coefficients T1..T3, P1..P9 given as a sequence.
CalibBlockOf(c) ==
    LE16(c[1]) \o LE16(c[2]) \o LE16(c[3]) \o LE16(c[4]) \o LE16(c[5]) \o LE16(c[6])
    \o LE16(c[7]) \o LE16(c[8]) \o LE16(c[9]) \o LE16(c[10]) \o LE16(c[11]) \o LE16(c[12])

\* The data sheet's example coefficients.
RefCoeffs == <<27504, 26435, -1000, 36477, -10685, 3024, 2855, 140, -7, 15500, -14600, 6000>>

RefCalib == CalibBlockOf(RefCoeffs)

\* The calibration blocks of the polling specification: the example, the
\* example with P1 = 0, and the all-ones block.
BaroCalibs ==
    {RefCalib, CalibBlockOf([RefCoeffs EXCEPT ![4] = 0]), [i \in 1 .. 24 |-> 255]}

\* The calibration blocks of the parsing specification: the example with one
\* byte pair replaced, for every pair, every high byte and the edge low bytes.
BaroAllCalibs ==
    {[i \in 1 .. 24 |-> IF i = 2 * k + 1 THEN lo ELSE IF i = 2 * k + 2 THEN hi ELSE RefCalib[i]] :
        k \in 0 .. 11, lo \in EdgeBytes, hi \in Byte}

\* The data blocks of the polling specification.
BaroDatas == {<<101, 90, 192, 126, 237, 0>>, <<0, 0, 0, 255, 255, 255>>}

\* The data blocks of the raw-code specification.
BaroAllDatas ==
    {<<pm, pl, px, tm, tl, tx>> :
        pm \in EdgeBytes, pl \in EdgeBytes, px \in XlsbBytes,
        tm \in EdgeBytes, tl \in EdgeBytes, tx \in XlsbBytes}

BaroInit ==
    /\ bpc = "setup_control"
    /\ btrace = <<>>
    /\ calib = <<>>
    /\ calib_coeffs = <<>>
    /\ data = <<>>
    /\ reading = <<>>
    /\ mpc = "off"
    /\ mtrace = <<>>
    /\ frame = <<>>
    /\ values = <<>>
    /\ out = <<>>

\* setup_sensor, first write (control register) succeeds
BaroWriteControlOk ==
    /\ bpc = "setup_control"
    /\ btrace' = Append(btrace, BEvent("write_byte_data", REG_CONTROL, CONTROL_VALUE, 0, TRUE))
    /\ bpc' = "setup_config"
    /\ UNCHANGED <<calib, calib_coeffs, data, reading>>
    /\ UNCHANGED magVars

\* A variant in which the failure of the first write is ignored.
BaroWriteControlFailIgnored ==
    /\ bpc = "setup_control"
    /\ btrace' = Append(btrace, BEvent("write_byte_data", REG_CONTROL, CONTROL_VALUE, 0, FALSE))
    /\ bpc' = "setup_config"
    /\ UNCHANGED <<calib, calib_coeffs, data, reading>>
    /\ UNCHANGED magVars

\* setup_sensor, first write raises OSError: the handler of line 123 prints
\* and the program ends
BaroWriteControlFail ==
    /\ bpc = "setup_control"
    /\ btrace' = Append(btrace, BEvent("write_byte_data", REG_CONTROL, CONTROL_VALUE, 0, FALSE))
    /\ bpc' = "failed"
    /\ UNCHANGED <<calib, calib_coeffs, data, reading>>
    /\ UNCHANGED magVars

\* setup_sensor, second write (config register) succeeds
BaroWriteConfigOk ==
    /\ bpc = "setup_config"
    /\ btrace' = Append(btrace, BEvent("write_byte_data", REG_CONFIG, CONFIG_VALUE, 0, TRUE))
    /\ bpc' = "calibration"
    /\ UNCHANGED <<calib, calib_coeffs, data, reading>>
    /\ UNCHANGED magVars

\* setup_sensor, second write raises OSError
BaroWriteConfigFail ==
    /\ bpc = "setup_config"
    /\ btrace' = Append(btrace, BEvent("write_byte_data", REG_CONFIG, CONFIG_VALUE, 0, FALSE))
    /\ bpc' = "failed"
    /\ UNCHANGED <<calib, calib_coeffs, data, reading>>
    /\ UNCHANGED magVars

\* read_calibration_data, the block read succeeds
BaroReadCalibOk(blocks) ==
    /\ bpc = "calibration"
    /\ \E c \in blocks :
        /\ calib' = c
        /\ calib_coeffs' = ParseCalibration(c)
    /\ btrace' = Append(btrace, BEvent("read_block", REG_CALIB, 0, CALIB_LEN, TRUE))
    /\ bpc' = "poll"
    /\ UNCHANGED <<data, reading>>
    /\ UNCHANGED magVars

\* read_calibration_data, the block read raises OSError
BaroReadCalibFail ==
    /\ bpc = "calibration"
    /\ btrace' = Append(btrace, BEvent("read_block", REG_CALIB, 0, CALIB_LEN, FALSE))
    /\ bpc' = "failed"
    /\ UNCHANGED <<calib, calib_coeffs, data, reading>>
    /\ UNCHANGED magVars

\* Data block reads issued so far.
DataReads(trace) ==
    Len(SelectSeq(trace, LAMBDA e : e.op = "read_block" /\ e.reg = REG_DATA))

\* A variant of the poll cycle that reads the calibration block again.
BaroPollRereadsCalib(blocks, signs, cap) ==
    /\ bpc = "poll"
    /\ DataReads(btrace) < cap
    /\ \E d \in blocks, f \in signs, q \in signs, c \in BaroCalibs :
        /\ data' = d
        /\ calib' = c
        /\ calib_coeffs' = ParseCalibration(c)
        /\ reading' = ReadData(ParseCalibration(c), d, f, q)
    /\ btrace' = btrace \o <<BEvent("read_block", REG_CALIB, 0, CALIB_LEN, TRUE),
                            BEvent("read_block", REG_DATA, 0, DATA_LEN, TRUE),
                            BEvent("print", 0, 0, 0, TRUE)>>
    /\ bpc' = "poll"
    /\ UNCHANGED magVars

\* One iteration of the loop of line 114, the block read succeeds: read_data
\* returns, the line is printed, time.sleep(1). A ZeroDivisionError is caught
\* by no handler and ends the program with a traceback.
BaroPoll(blocks, signs, cap) ==
    /\ bpc = "poll"
    /\ DataReads(btrace) < cap
    /\ \E d \in blocks, f \in signs, q \in signs :
        LET r == ReadData(calib_coeffs, d, f, q)
        IN  /\ data' = d
            /\ reading' = r
            /\ bpc' = IF r.comp.raised THEN "crashed" ELSE "poll"
            /\ btrace' = btrace \o
                (IF r.comp.raised
                 THEN <<BEvent("read_block", REG_DATA, 0, DATA_LEN, TRUE)>>
                 ELSE <<BEvent("read_block", REG_DATA, 0, DATA_LEN, TRUE),
                        BEvent("print", 0, 0, 0, TRUE)>>)
    /\ UNCHANGED <<calib, calib_coeffs>>
    /\ UNCHANGED magVars

\* One iteration of the loop, the block read raises OSError: the handler of
\* line 123, outside the loop, prints and the program ends
BaroPollFail(cap) ==
    /\ bpc = "poll"
    /\ DataReads(btrace) < cap
    /\ btrace' = Append(btrace, BEvent("read_block", REG_DATA, 0, DATA_LEN, FALSE))
    /\ bpc' = "failed"
    /\ UNCHANGED <<calib, calib_coeffs, data, reading>>
    /\ UNCHANGED magVars

\* KeyboardInterrupt anywhere in the try block: print and end
BaroInterrupt ==
    /\ bpc \in {"setup_control", "setup_config", "calibration", "poll"}
    /\ bpc' = "stopped"
    /\ UNCHANGED <<btrace, calib, calib_coeffs, data, reading>>
    /\ UNCHANGED magVars

BaroNext ==
    \/ BaroWriteControlOk
    \/ BaroWriteControlFail
    \/ BaroWriteConfigOk
    \/ BaroWriteConfigFail
    \/ BaroReadCalibOk(BaroCalibs)
    \/ BaroReadCalibFail
    \/ BaroPoll(BaroDatas, Signs, MaxCycles)
    \/ BaroPollFail(MaxCycles)
    \/ BaroInterrupt

\* baro.py run for MaxCycles poll cycles
BaroSpec == BaroInit /\ [][BaroNext]_vars

BaroCalibNext ==
    \/ BaroWriteControlOk
    \/ BaroWriteControlFail
    \/ BaroWriteConfigOk
    \/ BaroWriteConfigFail
    \/ BaroReadCalibOk(BaroAllCalibs)
    \/ BaroReadCalibFail
    \/ BaroInterrupt

\* baro.py run to the end of its initialization, over the parsing blocks
BaroCalibSpec == BaroInit /\ [][BaroCalibNext]_vars

BaroDataNext ==
    \/ BaroWriteControlOk
    \/ BaroWriteControlFail
    \/ BaroWriteConfigOk
    \/ BaroWriteConfigFail
    \/ BaroReadCalibOk({RefCalib})
    \/ BaroReadCalibFail
    \/ BaroPoll(BaroAllDatas, {1}, 1)
    \/ BaroPollFail(1)
    \/ BaroInterrupt

\* baro.py run for one poll cycle, over the raw-code data blocks
BaroDataSpec == BaroInit /\ [][BaroDataNext]_vars

(***************************************************************************)
(* Claims about src/3dh.py                                                 *)
(***************************************************************************)
IsBusEvent(e) == e.op # "print"

\* The bus transactions of 3dh.py, without the printed lines.
MagBus == SelectSeq(mtrace, IsBusEvent)

IsFailedRead(e) == e.op = "read_block" /\ ~e.ok

IsFailedWrite(e) == e.op = "write_byte" /\ ~e.ok

\* C2: on the magnetometer's bus, start writes and block reads strictly
\* alternate beginning with a start, a block read directly follows a start
\* write that succeeded, and a failed start write is the last transaction of
\* the run: the program has exited and issues nothing after it.
C2_StartThenRead ==
    /\ \A i \in 1 .. Len(MagBus) :
        /\ MagBus[i].op = (IF i % 2 = 1 THEN "write_byte" ELSE "read_block")
        /\ MagBus[i].op = "read_block" => MagBus[i - 1].ok
        /\ IsFailedWrite(MagBus[i]) => i = Len(MagBus)
    /\ (mpc = "exited") = (MagBus # <<>> /\ IsFailedWrite(MagBus[Len(MagBus)]))
    /\ mpc = "exited" => mtrace[Len(mtrace)] = MagBus[Len(MagBus)]

\* A start write fails after a complete poll cycle.
C2_Witness ==
    /\ mpc = "exited"
    /\ Len(MagBus) >= 3
    /\ MagBus[2].op = "read_block"

\* C3: a failed block read leaves values = None and the program in its loop
\* (never exited); nothing is printed for that cycle, the next event after it
\* is the next cycle's start write; every printed line directly follows a
\* successful read and shows the axes decoded from the 7 bytes of that read.
C3_ReadFailureSkipsCycle ==
    /\ \A i \in 1 .. Len(mtrace) :
        /\ IsFailedRead(mtrace[i]) /\ i < Len(mtrace) => mtrace[i + 1].op = "write_byte"
        /\ mtrace[i].op = "print" =>
            i > 1 /\ mtrace[i - 1].op = "read_block" /\ mtrace[i - 1].ok
    /\ mtrace # <<>> /\ IsFailedRead(mtrace[Len(mtrace)]) =>
        /\ values = <<>>
        /\ frame = <<>>
        /\ mpc \in {"check", "start", "stopped"}
    /\ mtrace # <<>> /\ mtrace[Len(mtrace)].op = "print" =>
        /\ Len(frame) = MAG_FRAME_LEN
        /\ out = DecodeAxes(frame)

\* A read fails after a reading was printed, and the loop is back at its start.
C3_Witness ==
    /\ mpc = "start"
    /\ Len(mtrace) >= 5
    /\ IsFailedRead(mtrace[Len(mtrace)])
    /\ mtrace[3].op = "print"
    /\ out # <<>>

LowNibble(b) == b % 16

HighNibble(b) == b - (b % 16)

RECURSIVE PopCount(_)
PopCount(m) == IF m = 0 THEN 0 ELSE (m % 2) + PopCount(m \div 2)

\* C10: every start command byte is opcode 0x30 with the axis mask in its low
\* nibble, every read command byte is opcode 0x40 with the mask of the start
\* before it, and the length asked for is 1 + 2 * (channels set in the mask).
C10_CommandFraming ==
    \A i \in 1 .. Len(MagBus) :
        LET e == MagBus[i]
        IN  /\ e.op = "write_byte" =>
                /\ HighNibble(e.cmd) = CMD_SM
                /\ LowNibble(e.cmd) = AXIS_MASK
            /\ e.op = "read_block" =>
                /\ i > 1
                /\ HighNibble(e.cmd) = CMD_RM
                /\ LowNibble(e.cmd) = LowNibble(MagBus[i - 1].cmd)
                /\ e.len = 1 + 2 * PopCount(LowNibble(e.cmd))
                /\ e.len = MAG_FRAME_LEN

\* Two complete start / read pairs are on the bus.
C10_Witness ==
    /\ Len(MagBus) >= 4
    /\ MagBus[4].op = "read_block"
    /\ MagBus[4].ok

\* C5: each decoded axis is in -32768..32767, negative exactly when
\* 256*hi + lo >= 0x8000, and gives back hi and lo; x, y, z come from frame
\* bytes 1-2, 3-4, 5-6 (high byte first) whatever the status byte is.
C5_AxisDecoding ==
    values # <<>> /\ frame # <<>> =>
        /\ Len(values) = 3
        /\ \A k \in 1 .. 3 :
            LET hi == At(frame, 2 * k - 1)
                lo == At(frame, 2 * k)
                v == values[k]
            IN  /\ v \in -32768 .. 32767
                /\ (v < 0) = (256 * hi + lo >= 32768)
                /\ (v % 65536) \div 256 = hi
                /\ (v % 65536) % 256 = lo

\* A frame with a set status byte decodes to a negative x and a positive y.
C5_Witness ==
    /\ mpc = "check"
    /\ frame # <<>>
    /\ At(frame, 0) = 255
    /\ values[1] = -32768
    /\ values[2] = 128

(***************************************************************************)
(* Claims about src/baro.py                                                *)
(***************************************************************************)
IsDataRead(e) == e.op = "read_block" /\ e.reg = REG_DATA

IsCalibRead(e) == e.op = "read_block" /\ e.reg = REG_CALIB

CoeffNames == <<"T1", "T2", "T3", "P1", "P2", "P3", "P4", "P5", "P6", "P7", "P8", "P9">>

CoeffSet == {CoeffNames[k] : k \in 1 .. 12}

\* The three transactions of a successful initialization, in order.
InitDone(trace) ==
    /\ Len(trace) >= 3
    /\ trace[1] = BEvent("write_byte_data", REG_CONTROL, CONTROL_VALUE, 0, TRUE)
    /\ trace[2] = BEvent("write_byte_data", REG_CONFIG, CONFIG_VALUE, 0, TRUE)
    /\ trace[3] = BEvent("read_block", REG_CALIB, 0, CALIB_LEN, TRUE)

\* C1: a data block read, a computed reading or a printed line exists only
\* after both setup writes and the 24-byte calibration read succeeded, in
\* that order, with all 12 coefficients present; when one of the three fails
\* it is the last transaction of the run and nothing is read or printed.
C1_ReadOnlyAfterInit ==
    /\ (reading # <<>> \/ \E i \in 1 .. Len(btrace) : IsDataRead(btrace[i]) \/ btrace[i].op = "print") =>
        /\ InitDone(btrace)
        /\ \A i \in 1 .. 3 : ~IsDataRead(btrace[i]) /\ btrace[i].op # "print"
        /\ calib_coeffs # <<>>
        /\ DOMAIN calib_coeffs = CoeffSet
        /\ Len(calib) = CALIB_LEN
    /\ \A i \in 1 .. Len(btrace) :
        i <= 3 /\ ~btrace[i].ok =>
            /\ i = Len(btrace)
            /\ bpc = "failed"
            /\ reading = <<>>
            /\ data = <<>>

\* A reading was computed and printed after the initialization.
C1_Witness ==
    /\ reading # <<>>
    /\ Len(btrace) >= 5
    /\ btrace[5].op = "print"

\* C4: after a data block read fails the program is still in its polling loop
\* (or was stopped from the keyboard): the failure does not end it.
C4_DataReadFailureNonFatal ==
    btrace # <<>> /\ IsDataRead(btrace[Len(btrace)]) /\ ~btrace[Len(btrace)].ok =>
        bpc \in {"poll", "stopped"}

LexLeq(a, b) ==
    \/ a[1] < b[1]
    \/ a[1] = b[1] /\ a[2] < b[2]
    \/ a[1] = b[1] /\ a[2] = b[2] /\ a[3] <= b[3]

\* C6: adc_p and adc_t are in 0..2^20-1, and the raw code is monotonic: when
\* the pressure bytes are lexicographically below or equal to the temperature
\* bytes then adc_p <= adc_t, and the other way round.
C6_RawCodeRangeMonotonic ==
    reading # <<>> =>
        LET p == <<At(data, 0), At(data, 1), At(data, 2)>>
            t == <<At(data, 3), At(data, 4), At(data, 5)>>
        IN  /\ reading.adc_p \in 0 .. 1048575
            /\ reading.adc_t \in 0 .. 1048575
            /\ LexLeq(p, t) => reading.adc_p <= reading.adc_t
            /\ LexLeq(t, p) => reading.adc_t <= reading.adc_p

\* The pressure bytes are below the temperature bytes in the second byte only,
\* with a larger third byte.
C6_Witness ==
    /\ reading # <<>>
    /\ At(data, 0) = At(data, 3)
    /\ At(data, 1) < At(data, 4)
    /\ At(data, 2) > At(data, 5)
    /\ reading.adc_p < reading.adc_t

\* C7: the 12 coefficients come from the little-endian byte pairs at offsets
\* 0, 2, ..., 22 in the order T1, T2, T3, P1..P9; T1 and P1 are lo + 256*hi
\* in 0..65535, the others are lo + 256*hi, minus 65536 above 32767.
C7_CalibrationParsing ==
    calib_coeffs # <<>> =>
        /\ DOMAIN calib_coeffs = CoeffSet
        /\ \A k \in 1 .. 12 :
            LET u == At(calib, 2 * (k - 1)) + 256 * At(calib, 2 * (k - 1) + 1)
                v == calib_coeffs[CoeffNames[k]]
            IN  IF CoeffNames[k] \in {"T1", "P1"}
                THEN v = u /\ v \in 0 .. 65535
                ELSE v = (IF u > 32767 THEN u - 65536 ELSE u) /\ v \in -32768 .. 32767

\* T1 is parsed from the bytes FF FF and the signed data sheet values are
\* given back.
C7_Witness ==
    /\ calib_coeffs # <<>>
    /\ calib_coeffs.T1 = 65535
    /\ calib_coeffs.P1 = 36477
    /\ calib_coeffs.P2 = -10685
    /\ calib_coeffs.P9 = 6000

\* C8: when var1 is 0 (always when P1 = 0) the pressure returned is 0 and no
\* division by var1 is executed; the division is executed only when var1 is
\* not 0; read_data never ends in a division error.
C8_DegeneratePressure ==
    /\ bpc # "crashed"
    /\ reading # <<>> =>
        /\ ~reading.comp.raised
        /\ reading.dig.P1 = 0 => reading.comp.var1 = 0
        /\ reading.comp.var1 = 0 => reading.comp.pressure = 0 /\ ~reading.comp.divided
        /\ reading.comp.divided => reading.comp.var1 # 0

\* A read cycle ran with P1 = 0 and returned pressure 0 without dividing.
C8_Witness ==
    /\ reading # <<>>
    /\ bpc = "poll"
    /\ calib_coeffs.P1 = 0
    /\ reading.comp.pressure = 0
    /\ ~reading.comp.divided

\* C9: once loaded the coefficients never change, the calibration block is
\* read at most once in a run, and every read cycle computes with the
\* coefficients read_calibration_data returned.
C9_CalibrationImmutable ==
    [][/\ calib_coeffs # <<>> => calib_coeffs' = calib_coeffs
       /\ Len(SelectSeq(btrace', IsCalibRead)) <= 1
       /\ reading' # reading => reading'.dig = ParseCalibration(calib) /\ calib' = calib]_vars

\* Two read cycles ran on the same coefficients.
C9_Witness ==
    /\ DataReads(btrace) >= 2
    /\ reading # <<>>
    /\ reading.dig = calib_coeffs
    /\ bpc = "poll"

====
